---- MODULE Spec2Model ----
(***************************************************************************)
(* X.509 GeneralName value types of cryptography/x509/general_name.py.     *)
(*                                                                         *)
(* Text and byte strings are sequences of integers (code points, resp.     *)
(* byte values); a Python value is a record [kind, s] whose kind is the     *)
(* Python type and whose s is the content.  The constructors, accessors,   *)
(* comparisons and hashes of the module are operators; a caller holding    *)
(* two references applies them in the actions of Spec.                     *)
(***************************************************************************)
EXTENDS Integers, Sequences, FiniteSets, TLC

\* Code points used by the string literals of the source and by the inputs.
Ch == [space |-> 32, star |-> 42, hyphen |-> 45, dot |-> 46, slash |-> 47,
       d0 |-> 48, d8 |-> 56, d9 |-> 57, colon |-> 58, lt |-> 60, gt |-> 62,
       at |-> 64, A |-> 65, N |-> 78, X |-> 88, a |-> 97, c |-> 99,
       h |-> 104, n |-> 110, p |-> 112, u |-> 117, x |-> 120,
       eacute |-> 233, xFF |-> 255]

----------------------------------------------------------------------------
(* Python values and exceptions *)

Text(s) == [kind |-> "text", s |-> s]

Bytes(s) == [kind |-> "bytes", s |-> s]

Obj(kind, content) == [kind |-> kind, s |-> <<content>>]

Unset == [kind |-> "unset", s |-> <<>>]

Ok(s) == [status |-> "ok", s |-> s]

Raise(e) == [status |-> e, s |-> <<>>]

----------------------------------------------------------------------------
(* str / bytes primitives: startswith, split, join, lower, encode("ascii") *)

IsAscii(s) == \A i \in 1..Len(s) : s[i] < 128

Lower(s) == [i \in 1..Len(s) |-> IF s[i] \in 65..90 THEN s[i] + 32 ELSE s[i]]

Upper(s) == [i \in 1..Len(s) |-> IF s[i] \in 97..122 THEN s[i] - 32 ELSE s[i]]

StartsWith(s, prefix) ==
    /\ Len(s) >= Len(prefix)
    /\ SubSeq(s, 1, Len(prefix)) = prefix

Tail_(s, k) == SubSeq(s, k + 1, Len(s))

Find(s, ch) ==
    IF \E i \in 1..Len(s) : s[i] = ch
    THEN CHOOSE i \in 1..Len(s) : s[i] = ch /\ \A j \in 1..(i - 1) : s[j] # ch
    ELSE 0

RFind(s, ch) ==
    IF \E i \in 1..Len(s) : s[i] = ch
    THEN CHOOSE i \in 1..Len(s) : s[i] = ch /\ \A j \in (i + 1)..Len(s) : s[j] # ch
    ELSE 0

RECURSIVE Split(_, _)
Split(s, sep) ==
    LET i == Find(s, sep)
    IN  IF i = 0 THEN <<s>>
        ELSE <<SubSeq(s, 1, i - 1)>> \o Split(Tail_(s, i), sep)

RECURSIVE Join(_, _)
Join(parts, sep) ==
    IF Len(parts) = 0 THEN <<>>
    ELSE IF Len(parts) = 1 THEN parts[1]
    ELSE parts[1] \o <<sep>> \o Join(Tail(parts), sep)

RECURSIVE Strip(_)
Strip(s) ==
    IF Len(s) > 0 /\ s[1] = Ch.space THEN Strip(Tail(s))
    ELSE IF Len(s) > 0 /\ s[Len(s)] = Ch.space THEN Strip(SubSeq(s, 1, Len(s) - 1))
    ELSE s

\* value.encode("ascii"): the same code units as bytes, or UnicodeEncodeError.
EncodeAscii(s) == IF IsAscii(s) THEN Ok(s) ELSE Raise("UnicodeEncodeError")

----------------------------------------------------------------------------
(* The punycode codec (RFC 3492) behind idna.encode / idna.decode *)

PunyDigit(d) == IF d < 26 THEN 97 + d ELSE 22 + d

\* The value of a digit of the upper-cased extended string, -1 if none.
PunyValue(ch) ==
    IF ch \in 65..90 THEN ch - 65
    ELSE IF ch \in 48..57 THEN ch - 22
    ELSE -1

PunyT(j, bias) ==
    LET res == 36 * (j + 1) - bias
    IN  IF res < 1 THEN 1 ELSE IF res > 26 THEN 26 ELSE res

RECURSIVE PunyAdaptLoop(_, _)
PunyAdaptLoop(delta, divisions) ==
    IF delta > 455 THEN PunyAdaptLoop(delta \div 35, divisions + 36)
    ELSE divisions + ((36 * delta) \div (delta + 38))

PunyAdapt(delta, first, numchars) ==
    LET d1 == IF first THEN delta \div 700 ELSE delta \div 2
    IN  PunyAdaptLoop(d1 + (d1 \div numchars), 0)

RECURSIVE PunyGenInt(_, _, _)
PunyGenInt(N, bias, j) ==
    LET t == PunyT(j, bias)
    IN  IF N < t THEN <<PunyDigit(N)>>
        ELSE <<PunyDigit(t + ((N - t) % (36 - t)))>>
             \o PunyGenInt((N - t) \div (36 - t), bias, j + 1)

\* One pass over the input for code point m: st = [delta, bias, h, out].
RECURSIVE PunyPass(_, _, _, _, _)
PunyPass(input, i, m, b, st) ==
    IF i > Len(input) THEN st
    ELSE IF input[i] < m
         THEN PunyPass(input, i + 1, m, b, [st EXCEPT !.delta = @ + 1])
    ELSE IF input[i] = m
         THEN PunyPass(input, i + 1, m, b,
                       [delta |-> 0,
                        bias  |-> PunyAdapt(st.delta, st.h = b, st.h + 1),
                        h     |-> st.h + 1,
                        out   |-> st.out \o PunyGenInt(st.delta, st.bias, 0)])
    ELSE PunyPass(input, i + 1, m, b, st)

RECURSIVE PunyEncodeLoop(_, _, _, _)
PunyEncodeLoop(input, n, b, st) ==
    IF st.h >= Len(input) THEN st.out
    ELSE LET rest == {input[i] : i \in 1..Len(input)} \cap (n..1114111)
             m    == CHOOSE c \in rest : \A d \in rest : c <= d
             st1  == [st EXCEPT !.delta = @ + (m - n) * (st.h + 1)]
             st2  == PunyPass(input, 1, m, b, st1)
         IN  PunyEncodeLoop(input, m + 1, b, [st2 EXCEPT !.delta = @ + 1])

\* label.encode("punycode")
PunyEncode(input) ==
    LET base == SelectSeq(input, LAMBDA ch : ch < 128)
        b    == Len(base)
        ext  == PunyEncodeLoop(input, 128, b,
                               [delta |-> 0, bias |-> 72, h |-> b, out |-> <<>>])
    IN  IF b > 0 THEN base \o <<Ch.hyphen>> \o ext ELSE ext

\* One generalized integer starting at extpos (1-based): [ok, pos, val].
RECURSIVE PunyDecodeInt(_, _, _, _, _, _)
PunyDecodeInt(ext, extpos, bias, result, w, j) ==
    IF extpos > Len(ext) THEN [ok |-> FALSE, pos |-> extpos, val |-> 0]
    ELSE LET digit == PunyValue(ext[extpos])
             t     == PunyT(j, bias)
         IN  IF digit < 0 THEN [ok |-> FALSE, pos |-> extpos, val |-> 0]
             ELSE IF digit < t
                  THEN [ok |-> TRUE, pos |-> extpos + 1, val |-> result + digit * w]
             ELSE PunyDecodeInt(ext, extpos + 1, bias, result + digit * w,
                                w * (36 - t), j + 1)

RECURSIVE PunyInsertionSort(_, _, _, _, _, _)
PunyInsertionSort(base, ext, char, pos, bias, extpos) ==
    IF extpos > Len(ext) THEN Ok(base)
    ELSE LET g == PunyDecodeInt(ext, extpos, bias, 0, 1, 0)
         IN  IF ~g.ok THEN Raise("UnicodeError")
             ELSE LET p1    == pos + g.val + 1
                      char1 == char + (p1 \div (Len(base) + 1))
                      p2    == p1 % (Len(base) + 1)
                      base1 == SubSeq(base, 1, p2) \o <<char1>> \o Tail_(base, p2)
                  IN  IF char1 > 1114111 THEN Raise("UnicodeError")
                      ELSE PunyInsertionSort(base1, ext, char1, p2,
                                             PunyAdapt(g.val, extpos = 1, Len(base1)),
                                             g.pos)

\* label.decode("punycode")
PunyDecode(s) ==
    LET pos == RFind(s, Ch.hyphen)
        base == IF pos = 0 THEN <<>> ELSE SubSeq(s, 1, pos - 1)
        ext  == Upper(Tail_(s, pos))
    IN  IF ~IsAscii(base) THEN Raise("UnicodeError")
        ELSE PunyInsertionSort(base, ext, 128, -1, 72, 1)

----------------------------------------------------------------------------
(* The idna package: check_label, ulabel, alabel, encode, decode *)

AlabelPrefix == <<Ch.x, Ch.n, Ch.hyphen, Ch.hyphen>>

\* Code points with IDNA 2008 status PVALID, below U+0100.
PValid(cp) == cp \in (97..122) \cup (48..57) \cup {Ch.hyphen} \cup (223..246) \cup (248..255)

idna_check_label(label) ==
    /\ Len(label) > 0
    /\ ~(Len(label) >= 4 /\ SubSeq(label, 3, 4) = <<Ch.hyphen, Ch.hyphen>>)
    /\ label[1] # Ch.hyphen
    /\ label[Len(label)] # Ch.hyphen
    /\ \A i \in 1..Len(label) : PValid(label[i])

idna_valid_label_length(label) == Len(label) <= 63

idna_ulabel(label) ==
    IF ~IsAscii(label)
    THEN IF idna_check_label(label) THEN Ok(label) ELSE Raise("IDNAError")
    ELSE LET low == Lower(label)
         IN  IF StartsWith(low, AlabelPrefix)
             THEN LET u == PunyDecode(Tail_(low, Len(AlabelPrefix)))
                  IN  IF u.status = "ok" /\ idna_check_label(u.s)
                      THEN Ok(u.s) ELSE Raise("IDNAError")
             ELSE IF idna_check_label(low) THEN Ok(low) ELSE Raise("IDNAError")

idna_alabel(label) ==
    IF IsAscii(label)
    THEN IF idna_ulabel(label).status = "ok" /\ idna_valid_label_length(label)
         THEN Ok(label) ELSE Raise("IDNAError")
    ELSE IF ~idna_check_label(label) THEN Raise("IDNAError")
    ELSE LET out == AlabelPrefix \o PunyEncode(label)
         IN  IF idna_valid_label_length(out) THEN Ok(out) ELSE Raise("IDNAError")

\* "idna strips leading periods": leading empty labels are dropped.
RECURSIVE idna_strip_leading(_)
idna_strip_leading(labels) ==
    IF Len(labels) > 0 /\ labels[1] = <<>> THEN idna_strip_leading(Tail(labels))
    ELSE labels

\* The labels of s and whether s ends with a dot: a trailing dot is kept.
idna_labels(s) ==
    LET labels0  == idna_strip_leading(Split(s, Ch.dot))
        trailing == Len(labels0) > 0 /\ labels0[Len(labels0)] = <<>>
    IN  [labels   |-> IF trailing THEN SubSeq(labels0, 1, Len(labels0) - 1) ELSE labels0,
         trailing |-> trailing,
         empty    |-> Len(labels0) = 0]

\* The converted labels joined with dots; fails if any label failed.
idna_join(results, trailing) ==
    IF \E i \in 1..Len(results) : results[i].status # "ok" THEN Raise("IDNAError")
    ELSE Ok(Join([i \in 1..Len(results) |-> results[i].s]
                 \o (IF trailing THEN << <<>> >> ELSE <<>>), Ch.dot))

\* idna.encode(s): text (or ASCII bytes) to the ASCII-compatible byte form.
idna_encode(s) ==
    LET l == idna_labels(s)
    IN  IF l.empty THEN Raise("IDNAError")
        ELSE idna_join([i \in 1..Len(l.labels) |-> idna_alabel(l.labels[i])], l.trailing)

\* idna.decode(s): bytes (or text) to the Unicode form; bytes are decoded as ASCII first.
idna_decode(s) ==
    LET l == idna_labels(s)
    IN  IF ~IsAscii(s) THEN Raise("UnicodeDecodeError")
        ELSE IF l.empty THEN Raise("IDNAError")
        ELSE idna_join([i \in 1..Len(l.labels) |-> idna_ulabel(l.labels[i])], l.trailing)

----------------------------------------------------------------------------
(* email.utils.parseaddr, for values made of atoms and at most one          *)
(* angle-bracketed address: "phrase <addr>" gives (phrase, addr), a bare    *)
(* address gives ("", addr), anything else ("", "").                        *)

Count(s, ch) == Cardinality({i \in 1..Len(s) : s[i] = ch})

parseaddr(value) ==
    LET i == Find(value, Ch.lt)
        j == Find(value, Ch.gt)
        v == Strip(value)
    IN  IF i = 0
        THEN IF j = 0 /\ Count(v, Ch.space) = 0 /\ Count(v, Ch.at) <= 1
             THEN [name |-> <<>>, address |-> v]
             ELSE [name |-> <<>>, address |-> <<>>]
        ELSE IF j = Len(value) /\ i < j /\ Count(value, Ch.lt) = 1 /\ Count(value, Ch.gt) = 1
                  /\ Count(SubSeq(value, i + 1, j - 1), Ch.at) <= 1
                  /\ Count(SubSeq(value, i + 1, j - 1), Ch.space) = 0
                  /\ Count(SubSeq(value, 1, i - 1), Ch.at) = 0
             THEN [name |-> Strip(SubSeq(value, 1, i - 1)),
                   address |-> SubSeq(value, i + 1, j - 1)]
             ELSE [name |-> <<>>, address |-> <<>>]

----------------------------------------------------------------------------
(* int(port, 10) and "{0}".format(port) *)

IsDigits(s) == Len(s) > 0 /\ \A i \in 1..Len(s) : s[i] \in 48..57

RECURSIVE ParseInt(_)
ParseInt(s) ==
    IF Len(s) = 0 THEN 0
    ELSE 10 * ParseInt(SubSeq(s, 1, Len(s) - 1)) + (s[Len(s)] - 48)

RECURSIVE FormatInt(_)
FormatInt(n) ==
    IF n < 10 THEN <<48 + n>>
    ELSE FormatInt(n \div 10) \o <<48 + (n % 10)>>

----------------------------------------------------------------------------
(* urllib.parse: urlparse, its hostname and port properties, urlunparse *)

\* The first index >= from at which s holds one of chars, 0 if none.
FindAny(s, chars, from) ==
    IF \E i \in from..Len(s) : s[i] \in chars
    THEN CHOOSE i \in from..Len(s) :
             s[i] \in chars /\ \A j \in from..(i - 1) : s[j] \notin chars
    ELSE 0

SchemeChars == (97..122) \cup (65..90) \cup (48..57) \cup {43, Ch.hyphen, Ch.dot}

Http == <<Ch.h, 116, 116, Ch.p>>

UsesNetloc(scheme) == scheme \in {Http, Http \o <<115>>, <<102, 116, Ch.p>>}

UsesParams(scheme) == scheme \in {<<>>, Http, Http \o <<115>>, <<102, 116, Ch.p>>}

urlparse(url) ==
    LET i       == Find(url, Ch.colon)
        hasSch  == /\ i > 1
                   /\ url[1] \in (97..122) \cup (65..90)
                   /\ \A k \in 1..(i - 1) : url[k] \in SchemeChars
        scheme  == IF hasSch THEN Lower(SubSeq(url, 1, i - 1)) ELSE <<>>
        rest0   == IF hasSch THEN Tail_(url, i) ELSE url
        hasNet  == StartsWith(rest0, <<Ch.slash, Ch.slash>>)
        delim   == FindAny(rest0, {Ch.slash, 63, 35}, 3)
        netloc  == IF ~hasNet THEN <<>>
                   ELSE IF delim = 0 THEN Tail_(rest0, 2)
                   ELSE SubSeq(rest0, 3, delim - 1)
        rest1   == IF ~hasNet THEN rest0
                   ELSE IF delim = 0 THEN <<>>
                   ELSE Tail_(rest0, delim - 1)
        f       == Find(rest1, 35)
        frag    == IF f = 0 THEN <<>> ELSE Tail_(rest1, f)
        rest2   == IF f = 0 THEN rest1 ELSE SubSeq(rest1, 1, f - 1)
        q       == Find(rest2, 63)
        query   == IF q = 0 THEN <<>> ELSE Tail_(rest2, q)
        rest3   == IF q = 0 THEN rest2 ELSE SubSeq(rest2, 1, q - 1)
        sl      == RFind(rest3, Ch.slash)
        semi    == IF UsesParams(scheme) THEN FindAny(rest3, {59}, sl + 1) ELSE 0
        path    == IF semi = 0 THEN rest3 ELSE SubSeq(rest3, 1, semi - 1)
        params  == IF semi = 0 THEN <<>> ELSE Tail_(rest3, semi)
    IN  [scheme |-> scheme, netloc |-> netloc, path |-> path,
         params |-> params, query |-> query, fragment |-> frag]

\* netloc without userinfo, split at the first colon into host and port text.
url_hostinfo(parsed) ==
    LET at == RFind(parsed.netloc, Ch.at)
        hp == Tail_(parsed.netloc, at)
        c  == Find(hp, Ch.colon)
    IN  [host |-> IF c = 0 THEN hp ELSE SubSeq(hp, 1, c - 1),
         hasport |-> c # 0,
         port |-> IF c = 0 THEN <<>> ELSE Tail_(hp, c)]

\* parsed.hostname: lower-cased host, None (here: has = FALSE) when empty.
url_hostname(parsed) ==
    LET h == url_hostinfo(parsed).host
    IN  [has |-> Len(h) > 0, s |-> Lower(h)]

\* parsed.port: the port as an integer, None when absent or empty;
\* ValueError when it is no decimal number or is out of range.
url_port(parsed) ==
    LET hi == url_hostinfo(parsed)
    IN  IF ~hi.hasport \/ hi.port = <<>> THEN [status |-> "ok", has |-> FALSE, n |-> 0]
        ELSE IF ~IsDigits(hi.port) \/ ParseInt(hi.port) > 65535
             THEN [status |-> "ValueError", has |-> FALSE, n |-> 0]
        ELSE [status |-> "ok", has |-> TRUE, n |-> ParseInt(hi.port)]

urlunparse(scheme, netloc, path, params, query, fragment) ==
    LET u0 == IF params # <<>> THEN path \o <<59>> \o params ELSE path
        u1 == IF netloc # <<>>
                 \/ (scheme # <<>> /\ UsesNetloc(scheme) /\ ~StartsWith(u0, <<Ch.slash, Ch.slash>>))
              THEN <<Ch.slash, Ch.slash>> \o netloc
                   \o (IF u0 # <<>> /\ u0[1] # Ch.slash THEN <<Ch.slash>> ELSE <<>>) \o u0
              ELSE u0
        u2 == IF scheme # <<>> THEN scheme \o <<Ch.colon>> \o u1 ELSE u1
        u3 == IF query # <<>> THEN u2 \o <<63>> \o query ELSE u2
    IN  IF fragment # <<>> THEN u3 \o <<35>> \o fragment ELSE u3

----------------------------------------------------------------------------
(* The GeneralName classes.  An instance is a record of its class and its   *)
(* attributes; attributes a class does not set are Unset.  A constructor    *)
(* returns [status, obj, warnings]: status is "ok" or the exception raised. *)

\* The table with the name of tag 7 given to tag 8 as well.
GeneralNamesTagReused ==
    (0 :> "otherName") @@ (1 :> "rfc822Name") @@ (2 :> "dNSName") @@
    (3 :> "x400Address") @@ (4 :> "directoryName") @@ (5 :> "ediPartyName") @@
    (6 :> "uniformResourceIdentifier") @@ (7 :> "iPAddress") @@ (8 :> "iPAddress")

_GENERAL_NAMES ==
    (0 :> "otherName") @@ (1 :> "rfc822Name") @@ (2 :> "dNSName") @@
    (3 :> "x400Address") @@ (4 :> "directoryName") @@ (5 :> "ediPartyName") @@
    (6 :> "uniformResourceIdentifier") @@ (7 :> "iPAddress") @@ (8 :> "registeredID")

\* The classes registered as implementations of the GeneralName interface.
GeneralNameClasses ==
    {"RFC822Name", "DNSName", "UniformResourceIdentifier", "DirectoryName",
     "RegisteredID", "IPAddress", "OtherName"}

Instance(cls, value, encoded, bytes_value, type_id) ==
    [cls |-> cls, value |-> value, encoded |-> encoded,
     bytes_value |-> bytes_value, type_id |-> type_id]

NoObj == Instance("None", Unset, Unset, Unset, Unset)

Built(obj, warnings) == [status |-> "ok", obj |-> obj, warnings |-> warnings]

Failed(e) == [status |-> e, obj |-> NoObj, warnings |-> <<>>]

DeprecatedIn21 == "DeprecatedIn21"

\* isinstance(value, cls): the class itself or one of its subclasses.
Subclasses ==
    [IPv4Address |-> {"IPv4Address", "IPv4Interface"},
     IPv6Address |-> {"IPv6Address", "IPv6Interface"},
     IPv4Network |-> {"IPv4Network"},
     IPv6Network |-> {"IPv6Network"},
     Name |-> {"Name"},
     ObjectIdentifier |-> {"ObjectIdentifier"},
     text |-> {"text"},
     bytes |-> {"bytes"}]

isinstance(value, cls) == value.kind \in Subclasses[cls]

(* RFC822Name *)

\* The rejection test without its "not address" half.
RFC822Name_rejects_name_only(name, address) == name # <<>>

\* "if name or not address:" with (name, address) = parseaddr(value)
RFC822Name_rejects(name, address) == name # <<>> \/ address = <<>>

RFC822Name_init(value) ==
    IF ~isinstance(value, "text") THEN Failed("TypeError")
    ELSE LET pa      == parseaddr(value.s)
             address == pa.address
             parts   == Split(address, Ch.at)
         IN  IF RFC822Name_rejects(pa.name, address) THEN Failed("ValueError")
             ELSE IF Len(parts) = 1
             THEN LET e == EncodeAscii(address)
                  IN  IF e.status # "ok" THEN Failed(e.status)
                      ELSE Built(Instance("RFC822Name", value, Bytes(e.s), Unset, Unset),
                                 <<>>)
             ELSE LET l == EncodeAscii(parts[1])
                      d == idna_encode(parts[2])
                  IN  IF l.status # "ok" THEN Failed(l.status)
                      ELSE IF d.status # "ok" THEN Failed(d.status)
                      ELSE Built(Instance("RFC822Name", value,
                                          Bytes(l.s \o <<Ch.at>> \o d.s), Unset, Unset),
                                 <<>>)

\* The comparison made on the encoded forms.
RFC822Name_eq_encoded(self, other) ==
    IF other.cls # "RFC822Name" THEN "NotImplemented"
    ELSE IF self.encoded = other.encoded THEN "True" ELSE "False"

RFC822Name_eq(self, other) ==
    IF other.cls # "RFC822Name" THEN "NotImplemented"
    ELSE IF self.value = other.value THEN "True" ELSE "False"

\* hash(self.value): the hash of a text is a function of its content.
RFC822Name_hash(self) == [status |-> "ok", of |-> "value", s |-> self.value.s]

(* DNSName *)

_idna_encode(value) ==
    IF StartsWith(value, <<Ch.star, Ch.dot>>)
    THEN LET r == idna_encode(Tail_(value, 2))
         IN  IF r.status = "ok" THEN Ok(<<Ch.star, Ch.dot>> \o r.s) ELSE r
    ELSE IF StartsWith(value, <<Ch.dot>>)
    THEN LET r == idna_encode(Tail_(value, 1))
         IN  IF r.status = "ok" THEN Ok(<<Ch.dot>> \o r.s) ELSE r
    ELSE idna_encode(value)

\* warnings.warn(..., utils.DeprecatedIn21) after the idna encoding of a text
DNSName_warn_idna == <<DeprecatedIn21>>

\* The ASCII branch without its warning.
DNSName_warn_ascii_missing == <<>>

\* warnings.warn(..., utils.DeprecatedIn21) after the ASCII encoding of a text
DNSName_warn_ascii == <<DeprecatedIn21>>

DNSName_init(value) ==
    IF isinstance(value, "text")
    THEN LET a == EncodeAscii(value.s)
         IN  IF a.status = "ok"
             THEN Built(Instance("DNSName", Unset, Unset, Bytes(a.s), Unset),
                        DNSName_warn_ascii)
             ELSE LET r == _idna_encode(value.s)
                  IN  IF r.status # "ok" THEN Failed(r.status)
                      ELSE Built(Instance("DNSName", Unset, Unset, Bytes(r.s), Unset),
                                 DNSName_warn_idna)
    ELSE IF ~isinstance(value, "bytes") THEN Failed("TypeError")
    ELSE Built(Instance("DNSName", Unset, Unset, value, Unset), <<>>)

\* The value property that does not put the leading dot back.
DNSName_value_dot_lost(self) ==
    LET data == self.bytes_value.s
        r    == IF data = <<>> THEN Ok(<<>>)
                ELSE IF StartsWith(data, <<Ch.star, Ch.dot>>)
                THEN LET d == idna_decode(Tail_(data, 2))
                     IN  IF d.status = "ok" THEN Ok(<<Ch.star, Ch.dot>> \o d.s) ELSE d
                ELSE idna_decode(data)
    IN  [status |-> r.status, s |-> r.s, warnings |-> <<DeprecatedIn21>>]

\* The value property: [status, s, warnings]; the warning precedes the decoding.
DNSName_value(self) ==
    LET data == self.bytes_value.s
        r    == IF data = <<>> THEN Ok(<<>>)
                ELSE IF StartsWith(data, <<Ch.star, Ch.dot>>)
                THEN LET d == idna_decode(Tail_(data, 2))
                     IN  IF d.status = "ok" THEN Ok(<<Ch.star, Ch.dot>> \o d.s) ELSE d
                ELSE LET d == idna_decode(data)
                     IN  IF d.status # "ok" THEN d
                         ELSE IF StartsWith(data, <<Ch.dot>>) THEN Ok(<<Ch.dot>> \o d.s)
                         ELSE d
    IN  [status |-> r.status, s |-> r.s, warnings |-> <<DeprecatedIn21>>]

DNSName_eq(self, other) ==
    IF other.cls # "DNSName" THEN "NotImplemented"
    ELSE IF self.bytes_value = other.bytes_value THEN "True" ELSE "False"

(* UniformResourceIdentifier *)

UniformResourceIdentifier_init(value) ==
    IF ~isinstance(value, "text") THEN Failed("TypeError")
    ELSE LET parsed == urlparse(value.s)
             host   == url_hostname(parsed)
             port   == url_port(parsed)
             h      == idna_encode(host.s)
             netloc == IF ~host.has THEN Ok(<<>>)
                       ELSE IF port.status # "ok" THEN Raise(port.status)
                       ELSE IF h.status # "ok" THEN h
                       \* "elif parsed.port:" is false for None and for 0
                       ELSE IF port.has /\ port.n # 0
                            THEN Ok(h.s \o <<Ch.colon>> \o FormatInt(port.n))
                       ELSE Ok(h.s)
             uri    == EncodeAscii(urlunparse(parsed.scheme, netloc.s, parsed.path,
                                              parsed.params, parsed.query, parsed.fragment))
         IN  IF netloc.status # "ok" THEN Failed(netloc.status)
             ELSE IF uri.status # "ok" THEN Failed(uri.status)
             ELSE Built(Instance("UniformResourceIdentifier", value, Bytes(uri.s),
                                 Unset, Unset), <<>>)

UniformResourceIdentifier_eq(self, other) ==
    IF other.cls # "UniformResourceIdentifier" THEN "NotImplemented"
    ELSE IF self.value = other.value THEN "True" ELSE "False"

UniformResourceIdentifier_hash(self) == [status |-> "ok", of |-> "value", s |-> self.value.s]

(* DirectoryName, RegisteredID, IPAddress *)

DirectoryName_init(value) ==
    IF ~isinstance(value, "Name") THEN Failed("TypeError")
    ELSE Built(Instance("DirectoryName", value, Unset, Unset, Unset), <<>>)

DirectoryName_eq(self, other) ==
    IF other.cls # "DirectoryName" THEN "NotImplemented"
    ELSE IF self.value = other.value THEN "True" ELSE "False"

RegisteredID_init(value) ==
    IF ~isinstance(value, "ObjectIdentifier") THEN Failed("TypeError")
    ELSE Built(Instance("RegisteredID", value, Unset, Unset, Unset), <<>>)

RegisteredID_eq(self, other) ==
    IF other.cls # "RegisteredID" THEN "NotImplemented"
    ELSE IF self.value = other.value THEN "True" ELSE "False"

\* The type test without IPv6Network.
IPAddress_init_three_kinds(value) ==
    IF ~(\/ isinstance(value, "IPv4Address")
         \/ isinstance(value, "IPv6Address")
         \/ isinstance(value, "IPv4Network"))
    THEN Failed("TypeError")
    ELSE Built(Instance("IPAddress", value, Unset, Unset, Unset), <<>>)

IPAddress_init(value) ==
    IF ~(\/ isinstance(value, "IPv4Address")
         \/ isinstance(value, "IPv6Address")
         \/ isinstance(value, "IPv4Network")
         \/ isinstance(value, "IPv6Network"))
    THEN Failed("TypeError")
    ELSE Built(Instance("IPAddress", value, Unset, Unset, Unset), <<>>)

IPAddress_eq(self, other) ==
    IF other.cls # "IPAddress" THEN "NotImplemented"
    ELSE IF self.value = other.value THEN "True" ELSE "False"

(* OtherName *)

\* The constructor without the test of the payload's type.
OtherName_init_unchecked_payload(type_id, value) ==
    IF ~isinstance(type_id, "ObjectIdentifier") THEN Failed("TypeError")
    ELSE Built(Instance("OtherName", value, Unset, Unset, type_id), <<>>)

OtherName_init(type_id, value) ==
    IF ~isinstance(type_id, "ObjectIdentifier") THEN Failed("TypeError")
    ELSE IF ~isinstance(value, "bytes") THEN Failed("TypeError")
    ELSE Built(Instance("OtherName", value, Unset, Unset, type_id), <<>>)

OtherName_eq(self, other) ==
    IF other.cls # "OtherName" THEN "NotImplemented"
    ELSE IF self.type_id = other.type_id /\ self.value = other.value
         THEN "True" ELSE "False"

----------------------------------------------------------------------------
(* Comparison and hashing as the interpreter performs them *)

\* The interpreters the module supports (it is written against six).
PythonVersions == {2, 3}

eq(self, other) ==
    CASE self.cls = "RFC822Name" -> RFC822Name_eq(self, other)
      [] self.cls = "DNSName" -> DNSName_eq(self, other)
      [] self.cls = "UniformResourceIdentifier" -> UniformResourceIdentifier_eq(self, other)
      [] self.cls = "DirectoryName" -> DirectoryName_eq(self, other)
      [] self.cls = "RegisteredID" -> RegisteredID_eq(self, other)
      [] self.cls = "IPAddress" -> IPAddress_eq(self, other)
      [] self.cls = "OtherName" -> OtherName_eq(self, other)

\* x == y: x.__eq__(y), then the reflected y.__eq__(x), then identity.
PyEq(x, y, same) ==
    IF eq(x, y) # "NotImplemented" THEN eq(x, y) = "True"
    ELSE IF eq(y, x) # "NotImplemented" THEN eq(y, x) = "True"
    ELSE same

\* A class that defines __eq__ and no __hash__: Python 3 sets __hash__ to None
\* (hash() raises TypeError), Python 2 keeps object.__hash__ (by identity).
DefaultHash(id, py) ==
    IF py = 3 THEN [status |-> "TypeError", of |-> "none", s |-> <<>>]
    ELSE [status |-> "ok", of |-> "id", s |-> <<id>>]

DNSName_hash(self, id, py) == DefaultHash(id, py)

DirectoryName_hash(self, id, py) == DefaultHash(id, py)

RegisteredID_hash(self, id, py) == DefaultHash(id, py)

IPAddress_hash(self, id, py) == DefaultHash(id, py)

OtherName_hash(self, id, py) == DefaultHash(id, py)

\* hash(x) for the object x with identity id under interpreter py.
PyHash(self, id, py) ==
    CASE self.cls = "RFC822Name" -> RFC822Name_hash(self)
      [] self.cls = "DNSName" -> DNSName_hash(self, id, py)
      [] self.cls = "UniformResourceIdentifier" -> UniformResourceIdentifier_hash(self)
      [] self.cls = "DirectoryName" -> DirectoryName_hash(self, id, py)
      [] self.cls = "RegisteredID" -> RegisteredID_hash(self, id, py)
      [] self.cls = "IPAddress" -> IPAddress_hash(self, id, py)
      [] self.cls = "OtherName" -> OtherName_hash(self, id, py)

----------------------------------------------------------------------------
(* Bounds and the arguments callers pass *)

\* Tags 0..MaxTag are looked up in the tag table.
MaxTag == 9

\* OtherName payloads are the byte strings of at most this length.
MaxPayloadLen == 1

Star == <<Ch.star, Ch.dot>>

Dot == <<Ch.dot>>

Xn9ca == AlabelPrefix \o <<Ch.d9, Ch.c, Ch.a>>

DNSByteInputs ==
    {Bytes(pre \o d) : pre \in {<<>>, Star, Dot}, d \in {<<Ch.a>>, Xn9ca}}
    \cup {Bytes(<<>>), Bytes(Star \o <<Ch.A>>), Bytes(Dot \o Dot \o <<Ch.a>>),
          Bytes(Star), Bytes(<<Ch.xFF>>)}

DNSTextInputs ==
    {Text(pre \o d) : pre \in {<<>>, Star, Dot}, d \in {<<Ch.a>>, <<Ch.eacute>>}}
    \cup {Text(<<>>), Text(<<Ch.eacute, Ch.dot, Ch.star>>)}

DNSInputs == DNSByteInputs \cup DNSTextInputs \cup {Obj("int", 0)}

Addr(local, domain) == local \o <<Ch.at>> \o domain

RFC822Inputs ==
    {Text(<<>>), Text(<<Ch.u>>), Text(<<Ch.eacute>>),
     Text(Addr(<<Ch.u>>, <<Ch.a>>)), Text(Addr(<<Ch.u>>, <<Ch.eacute>>)),
     Text(Addr(<<Ch.u>>, Xn9ca)), Text(Addr(<<Ch.eacute>>, <<Ch.a>>)),
     Text(Addr(<<Ch.u>>, <<Ch.star>>)),
     Text(<<Ch.N, Ch.space, Ch.lt>> \o Addr(<<Ch.u>>, <<Ch.a>>) \o <<Ch.gt>>),
     Text(<<Ch.lt>> \o Addr(<<Ch.u>>, <<Ch.a>>) \o <<Ch.gt>>),
     Bytes(Addr(<<Ch.u>>, <<Ch.a>>))}

Url(host, port, path) == Http \o <<Ch.colon, Ch.slash, Ch.slash>> \o host \o port \o path

URIPorts ==
    {<<>>, <<Ch.colon, Ch.d0>>, <<Ch.colon, Ch.d8, Ch.d0>>,
     <<Ch.colon, Ch.d0, Ch.d8, Ch.d0>>}

URIInputs ==
    {Text(Url(<<Ch.a, Ch.dot, Ch.eacute>>, port, <<Ch.slash, Ch.p>>)) : port \in URIPorts}
    \cup {Text(Url(<<Ch.A>>, <<>>, <<>>)),
          Text(Http \o <<Ch.colon, Ch.p>>),
          Text(Url(Addr(<<Ch.u>>, <<Ch.a>>), <<Ch.colon, Ch.d8, Ch.d0>>, <<>>)),
          Text(Url(<<Ch.star>>, <<>>, <<>>)),
          Text(Url(<<Ch.a>>, <<Ch.colon, Ch.x>>, <<>>)),
          Text(Url(<<Ch.a>>, <<>>, <<Ch.slash, Ch.eacute>>)),
          Bytes(Url(<<Ch.a>>, <<>>, <<>>))}

\* Values of the external kinds, two of each accepted kind, and foreign values.
KindInputs ==
    {Obj(k, c) : k \in {"Name", "ObjectIdentifier", "IPv4Address"}, c \in {1, 2}}
    \cup {Obj("IPv6Address", 1), Obj("IPv4Network", 1), Obj("IPv6Network", 1),
          Obj("IPv4Interface", 1), Obj("NoneType", 0), Obj("int", 1),
          Text(<<Ch.a>>), Bytes(<<Ch.a>>)}

RECURSIVE ByteStrings(_)
ByteStrings(n) ==
    IF n = 0 THEN {<<>>}
    ELSE LET shorter == ByteStrings(n - 1)
         IN  shorter \cup {s \o <<b>> : s \in shorter, b \in {0, Ch.xFF}}

TypeIdInputs == {Obj("ObjectIdentifier", 1), Obj("ObjectIdentifier", 2), Text(<<Ch.a>>)}

PayloadInputs == {Bytes(s) : s \in ByteStrings(MaxPayloadLen)} \cup {Text(<<Ch.a>>)}

----------------------------------------------------------------------------
(* The caller: two references, the outcome of the last call and the        *)
(* warnings it emitted.  origin remembers the argument an instance was     *)
(* constructed from.                                                       *)

VARIABLES refs, origin, last, warnings

vars == <<refs, origin, last, warnings>>

Refs == {1, 2}

Call(op, ref, other, arg, arg2, status, ret, name, py) ==
    [op |-> op, ref |-> ref, other |-> other, arg |-> arg, arg2 |-> arg2,
     status |-> status, ret |-> ret, name |-> name, py |-> py]

Init ==
    /\ refs = [r \in Refs |-> NoObj]
    /\ origin = [r \in Refs |-> Unset]
    /\ last = Call("none", 0, 0, Unset, Unset, "ok", Unset, "", 0)
    /\ warnings = <<>>

\* ref = Class(arg[, arg2]): on an exception the reference keeps its binding.
Construct(cls, r, arg, arg2, outcome) ==
    /\ last' = Call(cls, r, 0, arg, arg2, outcome.status, Unset, "", 0)
    /\ warnings' = outcome.warnings
    /\ refs' = IF outcome.status = "ok" THEN [refs EXCEPT ![r] = outcome.obj] ELSE refs
    /\ origin' = IF outcome.status = "ok" THEN [origin EXCEPT ![r] = arg] ELSE origin

\* The constructor calls a caller makes, each with its outcome.
RFC822Name_calls == {[arg |-> v, outcome |-> RFC822Name_init(v)] : v \in RFC822Inputs}

DNSName_calls == {[arg |-> v, outcome |-> DNSName_init(v)] : v \in DNSInputs}

UniformResourceIdentifier_calls ==
    {[arg |-> v, outcome |-> UniformResourceIdentifier_init(v)] : v \in URIInputs}

DirectoryName_calls == {[arg |-> v, outcome |-> DirectoryName_init(v)] : v \in KindInputs}

RegisteredID_calls == {[arg |-> v, outcome |-> RegisteredID_init(v)] : v \in KindInputs}

IPAddress_calls == {[arg |-> v, outcome |-> IPAddress_init(v)] : v \in KindInputs}

OtherName_calls ==
    {[arg |-> t, arg2 |-> v, outcome |-> OtherName_init(t, v)] :
        t \in TypeIdInputs, v \in PayloadInputs}

NewRFC822Name(r, c) == Construct("RFC822Name", r, c.arg, Unset, c.outcome)

NewDNSName(r, c) == Construct("DNSName", r, c.arg, Unset, c.outcome)

NewUniformResourceIdentifier(r, c) ==
    Construct("UniformResourceIdentifier", r, c.arg, Unset, c.outcome)

NewDirectoryName(r, c) == Construct("DirectoryName", r, c.arg, Unset, c.outcome)

NewRegisteredID(r, c) == Construct("RegisteredID", r, c.arg, Unset, c.outcome)

NewIPAddress(r, c) == Construct("IPAddress", r, c.arg, Unset, c.outcome)

NewOtherName(r, c) == Construct("OtherName", r, c.arg, c.arg2, c.outcome)

\* refs[a] == refs[b]
Compare(a, b) ==
    /\ refs[a] # NoObj /\ refs[b] # NoObj
    /\ last' = Call("eq", a, b, Unset, Unset, "ok",
                    Obj("bool", PyEq(refs[a], refs[b], a = b)), "", 0)
    /\ warnings' = <<>>
    /\ UNCHANGED <<refs, origin>>

\* hash(refs[r]) under interpreter py
Hash(r, py) ==
    /\ refs[r] # NoObj
    /\ LET h == PyHash(refs[r], r, py)
       IN  last' = Call("hash", r, 0, Unset, Unset, h.status,
                        [kind |-> h.of, s |-> h.s], "", py)
    /\ warnings' = <<>>
    /\ UNCHANGED <<refs, origin>>

\* The reads of .value a caller makes on the DNSName instances it can hold,
\* each with its outcome.
DNSName_reads ==
    {[self |-> c.outcome.obj, outcome |-> DNSName_value(c.outcome.obj)] :
        c \in {d \in DNSName_calls : d.outcome.status = "ok"}}

\* refs[r].value of a DNSName
ReadValue(r, c) ==
    /\ refs[r] = c.self
    /\ last' = Call("value", r, 0, Unset, Unset, c.outcome.status,
                    IF c.outcome.status = "ok" THEN Text(c.outcome.s) ELSE Unset, "", 0)
    /\ warnings' = c.outcome.warnings
    /\ UNCHANGED <<refs, origin>>

\* _GENERAL_NAMES[tag]
LookupTag(tag) ==
    /\ last' = IF tag \in DOMAIN _GENERAL_NAMES
               THEN Call("tag", 0, 0, Obj("int", tag), Unset, "ok", Unset,
                         _GENERAL_NAMES[tag], 0)
               ELSE Call("tag", 0, 0, Obj("int", tag), Unset, "KeyError", Unset, "", 0)
    /\ warnings' = <<>>
    /\ UNCHANGED <<refs, origin>>

\* A caller of the name forms built from strings.
NextStrings ==
    \/ \E r \in Refs, c \in RFC822Name_calls : NewRFC822Name(r, c)
    \/ \E r \in Refs, c \in DNSName_calls : NewDNSName(r, c)
    \/ \E r \in Refs, c \in UniformResourceIdentifier_calls :
           NewUniformResourceIdentifier(r, c)
    \/ \E a \in Refs, b \in Refs : Compare(a, b)
    \/ \E r \in Refs, py \in PythonVersions : Hash(r, py)
    \/ \E r \in Refs, c \in DNSName_reads : ReadValue(r, c)

\* A caller of the name forms that wrap an external value, and of the tag table.
NextTyped ==
    \/ \E r \in Refs, c \in DirectoryName_calls : NewDirectoryName(r, c)
    \/ \E r \in Refs, c \in RegisteredID_calls : NewRegisteredID(r, c)
    \/ \E r \in Refs, c \in IPAddress_calls : NewIPAddress(r, c)
    \/ \E r \in Refs, c \in OtherName_calls : NewOtherName(r, c)
    \/ \E a \in Refs, b \in Refs : Compare(a, b)
    \/ \E r \in Refs, py \in PythonVersions : Hash(r, py)
    \/ \E tag \in 0..MaxTag : LookupTag(tag)

Spec == Init /\ [][NextStrings]_vars

SpecTyped == Init /\ [][NextTyped]_vars

----------------------------------------------------------------------------
(* Properties *)

Constructed(r, cls) == refs[r].cls = cls

\* C4: RFC822Name(value) raises TypeError for a value that is no text, and
\* raises ValueError and builds no instance for a text whose parse as a mail
\* address yields a display name or an empty address.
C4_RejectsDisplayNameAndEmpty ==
    last.op = "RFC822Name" =>
        LET pa == parseaddr(last.arg.s)
        IN  /\ last.arg.kind # "text" => last.status = "TypeError"
            /\ (last.arg.kind = "text" /\ (pa.name # <<>> \/ pa.address = <<>>))
                   => last.status = "ValueError"
            /\ last.status # "ok"
                   => \A r \in Refs : ~(Constructed(r, "RFC822Name") /\ origin[r] = last.arg)

C4_Witness ==
    /\ last.op = "RFC822Name"
    /\ last.arg.kind = "text"
    /\ parseaddr(last.arg.s).name # <<>>
    /\ last.status = "ValueError"

\* The kinds each wrapping constructor requires.
RequiredKinds ==
    [DirectoryName |-> {"Name"},
     RegisteredID |-> {"ObjectIdentifier"},
     IPAddress |-> {"IPv4Address", "IPv6Address", "IPv4Network", "IPv6Network"}]

C6_OtherNameStoresArguments ==
    last.op = "OtherName" =>
        IF last.arg.kind = "ObjectIdentifier" /\ last.arg2.kind = "bytes"
        THEN /\ last.status = "ok"
             /\ refs[last.ref].type_id = last.arg
             /\ refs[last.ref].value = last.arg2
        ELSE last.status = "TypeError"

C6_Witness ==
    /\ last.op = "OtherName"
    /\ last.status = "ok"
    /\ last.arg2 = Bytes(<<Ch.xFF>>)
    /\ refs[last.ref].value = Bytes(<<Ch.xFF>>)

\* C9: DNSName(text) emits one deprecation warning and still builds the
\* instance, from all-ASCII text (bytes are the text's ASCII encoding) and from
\* other text (bytes are its prefix-aware idna encoding); it fails only when
\* the idna codec rejects the text; DNSName(bytes) emits no warning.
C9_TextInputWarns ==
    last.op = "DNSName" =>
        /\ last.arg.kind = "text" /\ IsAscii(last.arg.s) =>
               /\ last.status = "ok"
               /\ warnings = <<DeprecatedIn21>>
               /\ refs[last.ref].bytes_value = Bytes(last.arg.s)
        /\ last.arg.kind = "text" /\ ~IsAscii(last.arg.s) =>
               /\ last.status \in {"ok", "IDNAError"}
               /\ last.status = "ok" =>
                      /\ warnings = <<DeprecatedIn21>>
                      /\ refs[last.ref].bytes_value = Bytes(_idna_encode(last.arg.s).s)
               /\ last.status # "ok" => _idna_encode(last.arg.s).status # "ok"
        /\ last.arg.kind = "bytes" =>
               /\ last.status = "ok"
               /\ warnings = <<>>
               /\ refs[last.ref].bytes_value = last.arg

C9_Witness ==
    /\ last.op = "DNSName"
    /\ last.arg = Text(Star \o <<Ch.eacute>>)
    /\ last.status = "ok"
    /\ warnings = <<DeprecatedIn21>>
    /\ refs[last.ref].bytes_value = Bytes(Star \o Xn9ca)

Bool(v) == v.s[1]

\* The logical value of an instance: the text of an RFC822Name or
\* UniformResourceIdentifier, what the value accessor gives for a DNSName.
Logical(obj) ==
    IF obj.cls = "DNSName"
    THEN [status |-> DNSName_value(obj).status, s |-> DNSName_value(obj).s]
    ELSE Ok(obj.value.s)

StringClasses == {"RFC822Name", "DNSName", "UniformResourceIdentifier"}

\* C1 as stated: two instances of one of RFC822Name, DNSName and
\* UniformResourceIdentifier compare equal if and only if their logical values
\* are equal.
C1_EqualIffLogicalEqual ==
    (last.op = "eq" /\ refs[last.ref].cls = refs[last.other].cls
                    /\ refs[last.ref].cls \in StringClasses)
        => (Bool(last.ret) <=> Logical(refs[last.ref]) = Logical(refs[last.other]))

\* C1 as amended: two RFC822Name or UniformResourceIdentifier instances
\* compare equal if and only if the texts they were constructed from are equal;
\* two DNSName instances compare equal if and only if their byte forms are
\* equal, whichever input form gave them, and equal DNSName instances have the
\* same logical value.
C1_EqualIffValueOrBytesEqual ==
    last.op = "eq" =>
        LET x == refs[last.ref]
            y == refs[last.other]
        IN  /\ (x.cls = y.cls /\ x.cls \in {"RFC822Name", "UniformResourceIdentifier"})
                   => (Bool(last.ret) <=> origin[last.ref] = origin[last.other])
            /\ (x.cls = "DNSName" /\ y.cls = "DNSName")
                   => /\ Bool(last.ret) <=> x.bytes_value = y.bytes_value
                      /\ Bool(last.ret) => Logical(x) = Logical(y)
                      /\ (origin[last.ref].kind = "bytes" /\ origin[last.other].kind = "bytes")
                             => (Bool(last.ret) <=> origin[last.ref] = origin[last.other])

C1_Witness ==
    /\ last.op = "eq"
    /\ Constructed(last.ref, "DNSName") /\ Constructed(last.other, "DNSName")
    /\ origin[last.ref].kind = "text" /\ origin[last.other].kind = "bytes"
    /\ ~IsAscii(origin[last.ref].s)
    /\ Bool(last.ret)

HasPrefix(s) == StartsWith(s, Star) \/ StartsWith(s, Dot)

Remainder(s) == IF StartsWith(s, Star) THEN Tail_(s, 2) ELSE Tail_(s, 1)

\* b was constructed from the text that the value accessor gives for a.
RoundTrip(a, b) ==
    /\ Constructed(a, "DNSName") /\ Constructed(b, "DNSName")
    /\ DNSName_value(refs[a]).status = "ok"
    /\ origin[b] = Text(DNSName_value(refs[a]).s)

\* C2 as stated: for every DNSName whose bytes begin with "*." or ".", the
\* value accessor succeeds, and a DNSName constructed from the text it gives
\* has the original bytes.
C2_RoundTripAllPrefixed ==
    \A a \in Refs :
        (Constructed(a, "DNSName") /\ HasPrefix(refs[a].bytes_value.s)) =>
            /\ DNSName_value(refs[a]).status = "ok"
            /\ \A b \in Refs : RoundTrip(a, b) => refs[b].bytes_value = refs[a].bytes_value

\* The codec's canonical byte forms: decoding succeeds and encoding the result
\* gives the same bytes back.
Canonical(s) ==
    /\ idna_decode(s).status = "ok"
    /\ idna_encode(idna_decode(s).s) = Ok(s)

\* C2 as amended: for every DNSName whose bytes are "*." or "." followed by a
\* canonical byte form, the value accessor gives the prefix followed by the
\* decoded remainder, and a DNSName constructed from that text has the
\* original bytes.
C2_RoundTripCanonical ==
    \A a \in Refs :
        (/\ Constructed(a, "DNSName")
         /\ HasPrefix(refs[a].bytes_value.s)
         /\ Canonical(Remainder(refs[a].bytes_value.s))) =>
            LET data == refs[a].bytes_value.s
                pre  == SubSeq(data, 1, Len(data) - Len(Remainder(data)))
            IN  /\ DNSName_value(refs[a]).status = "ok"
                /\ DNSName_value(refs[a]).s = pre \o idna_decode(Remainder(data)).s
                /\ \A b \in Refs : RoundTrip(a, b) => refs[b].bytes_value = refs[a].bytes_value

C2_Witness ==
    /\ Constructed(1, "DNSName") /\ origin[1] = Bytes(Dot \o Xn9ca)
    /\ RoundTrip(1, 2)
    /\ origin[2] = Text(Dot \o <<Ch.eacute>>)
    /\ refs[2].bytes_value = refs[1].bytes_value
    /\ last.op = "value" /\ last.ref = 1 /\ last.ret = origin[2]

\* C3 as stated: a UniformResourceIdentifier constructed from a text with a
\* host and an explicit decimal port stores an encoded form whose netloc is the
\* idna-encoded host, a colon and the port's digits as given.
C3_PortKept ==
    \A r \in Refs :
        LET hi == url_hostinfo(urlparse(origin[r].s))
        IN  (/\ Constructed(r, "UniformResourceIdentifier")
             /\ hi.host # <<>> /\ hi.hasport /\ IsDigits(hi.port)) =>
                urlparse(refs[r].encoded.s).netloc
                    = idna_encode(Lower(hi.host)).s \o <<Ch.colon>> \o hi.port

\* The class that implements the name of a tag of RFC 5280.
VariantOf ==
    [otherName |-> "OtherName", rfc822Name |-> "RFC822Name", dNSName |-> "DNSName",
     x400Address |-> "X400Address", directoryName |-> "DirectoryName",
     ediPartyName |-> "EDIPartyName",
     uniformResourceIdentifier |-> "UniformResourceIdentifier",
     iPAddress |-> "IPAddress", registeredID |-> "RegisteredID"]

TagOf(call) == call.arg.s[1]

\* C7 as stated: the table is defined for every tag 0..8, gives no name to two
\* tags, and every tag's name is that of a GeneralName class of the module.
C7_EveryTagHasVariant ==
    last.op = "tag" =>
        /\ last.status = "ok" <=> TagOf(last) \in 0..8
        /\ last.status = "ok" =>
               /\ \A t \in DOMAIN _GENERAL_NAMES :
                      _GENERAL_NAMES[t] = last.name => t = TagOf(last)
               /\ VariantOf[last.name] \in GeneralNameClasses

\* C7 as amended: the table is defined exactly for the tags 0..8 and gives no
\* name to two tags; the names of tags 0, 1, 2, 4, 6, 7 and 8 are those of the
\* seven GeneralName classes of the module (4 is DirectoryName), and the names
\* of tags 3 and 5 are those of no class of the module.
C7_TableInjectiveSevenVariants ==
    last.op = "tag" =>
        /\ last.status = "ok" <=> TagOf(last) \in 0..8
        /\ last.status = "ok" =>
               /\ \A t \in DOMAIN _GENERAL_NAMES :
                      _GENERAL_NAMES[t] = last.name => t = TagOf(last)
               /\ VariantOf[last.name] \in GeneralNameClasses
                      <=> TagOf(last) \notin {3, 5}
               /\ TagOf(last) = 4 => VariantOf[last.name] = "DirectoryName"
               /\ \A c \in GeneralNameClasses :
                      \E t \in DOMAIN _GENERAL_NAMES : VariantOf[_GENERAL_NAMES[t]] = c

C7_Witness ==
    /\ last.op = "tag"
    /\ TagOf(last) = 3
    /\ last.status = "ok"
    /\ last.name = "x400Address"

\* C8 as stated: the byte form of every constructed DNSName is all ASCII.
C8_BytesValueAscii ==
    \A r \in Refs : Constructed(r, "DNSName") => IsAscii(refs[r].bytes_value.s)

\* C10 as stated: hashing an instance of any GeneralName class succeeds, and
\* instances that compare equal have the same hash.
C10_HashConsistentWithEq ==
    /\ last.op = "hash" => last.status = "ok"
    /\ \A a \in Refs, b \in Refs, py \in PythonVersions :
           (refs[a] # NoObj /\ refs[b] # NoObj /\ PyEq(refs[a], refs[b], a = b))
               => PyHash(refs[a], a, py) = PyHash(refs[b], b, py)

====
